---- MODULE Spec2Model ----
(***************************************************************************)
(* A model of silkie, a static site generator (src/silkie/silkie.py).      *)
(*                                                                         *)
(* Two specifications share the definitions below.                         *)
(*   Spec      the silkie command: option loading, the clean build of      *)
(*             dist/, the single-file and directory branches, rendering,   *)
(*             routing and writing, and the top-level exception handlers;  *)
(*             the command is invoked MaxRuns times in a row on the same   *)
(*             inputs.                                                     *)
(*   SpecText  parse_text / get_title applied to every text of at most     *)
(*             MaxLen characters over Chars (and to one longer sample).    *)
(*                                                                         *)
(* Text is a sequence of one-character strings.  GeneratorOptions,         *)
(* silkie.definitions and silkie.utils are imported by silkie.py but their *)
(* code is not part of the sources; what the model needs of them is taken  *)
(* from the specification and marked so in the model map.                  *)
(***************************************************************************)
EXTENDS Integers, Sequences, FiniteSets, TLC

VARIABLES
    files,        \* the input file system: path -> text of the file
    input_kind,   \* "file" or "dir": what the -i path is
    listing,      \* the files of the input directory in enumeration order
                  \* (for a single-file input: that one file)
    unreadable,   \* the input files that cannot be opened
    config,       \* "ok", "missing" or "malformed": the -c file
    dist,         \* the output directory: slug -> entry of dist/<slug>.html
    pc,           \* position in the silkie command
    options,      \* the GeneratorOptions object
    ext_index,    \* index of the extension loop (line 55)
    pending,      \* files the glob of the current extension still has to yield
    doc,          \* the document get_html returned
    reported,     \* failure messages echoed by the handlers of this invocation
    escaped,      \* the exception that left the command uncaught, or "none"
    rendered,     \* files get_html was called for, in order (this invocation)
    written,      \* write_static_file calls of this invocation: file and content
    survivors,    \* slugs whose file has been in dist/ since the invocation began
    pre_dist,     \* dist/ as it was when the invocation began
    run,          \* number of the invocation
    prev_dist     \* dist/ as the previous invocation left it

vars == <<files, input_kind, listing, unreadable, config, dist, pc, options,
          ext_index, pending, doc, reported, escaped, rendered, written,
          survivors, pre_dist, run, prev_dist>>

----------------------------------------------------------------------------
(* Bounds *)

MaxLen == 7
MaxFiles == 3
MaxRuns == 2

----------------------------------------------------------------------------
(* Text *)

NL == "\n"
Chars == {"a", " ", NL}

Texts(n) == UNION {[1..k -> Chars] : k \in 0..n}

\* The sample of the specification: "Hello\n\n\nWorld\n\nFoo bar"
HelloText ==
    <<"H", "e", "l", "l", "o", NL, NL, NL,
      "W", "o", "r", "l", "d", NL, NL, "F", "o", "o", " ", "b", "a", "r">>

\* str.strip() removes whitespace; of the characters modelled, " " and "\n"
IsSpace(c) == c \in {" ", NL}

RECURSIVE LStrip(_)
LStrip(s) == IF s # <<>> /\ IsSpace(Head(s)) THEN LStrip(Tail(s)) ELSE s

RECURSIVE RStrip(_)
RStrip(s) ==
    IF s # <<>> /\ IsSpace(s[Len(s)]) THEN RStrip(SubSeq(s, 1, Len(s) - 1)) ELSE s

Strip(s) == RStrip(LStrip(s))

\* Number of characters before the first line feed: what ".+" can consume
RECURSIVE LineLen(_)
LineLen(s) == IF s = <<>> \/ Head(s) = NL THEN 0 ELSE 1 + LineLen(Tail(s))

\* A mutant of TitleMatch: the pattern with two line feeds only
TitleMatchTwoFeeds(s) ==
    LET k == LineLen(s)
    IN  IF /\ k >= 1
           /\ k + 2 <= Len(s)
           /\ \A i \in (k + 1)..(k + 2) : s[i] = NL
        THEN k + 2
        ELSE 0

\* re.compile(r"^.+(\n\n\n)").search(text): without re.MULTILINE "^" is the start
\* of the text and "." is any character but a line feed, so the pattern matches
\* iff a non-empty run of such characters is followed by three line feeds.
\* The result is the length of group(0), or 0 when there is no match.
TitleMatch(s) ==
    LET k == LineLen(s)
    IN  IF /\ k >= 1
           /\ k + 3 <= Len(s)
           /\ \A i \in (k + 1)..(k + 3) : s[i] = NL
        THEN k + 3
        ELSE 0

\* A mutant of get_title: group(0) returned without strip()
GetTitleRaw(s) ==
    IF TitleMatch(s) > 0 THEN SubSeq(s, 1, TitleMatch(s)) ELSE <<>>

GetTitle(s) ==
    IF TitleMatch(s) > 0 THEN Strip(SubSeq(s, 1, TitleMatch(s))) ELSE <<>>

\* content[i:-1] for i >= 0: the characters from index i up to, not including,
\* the last one
SliceToLast(s, i) == SubSeq(s, i + 1, Len(s) - 1)

\* str.split("\n\n"): cut at every leftmost, non-overlapping pair of line feeds
RECURSIVE SplitFrom(_, _)
SplitFrom(s, cur) ==
    IF Len(s) >= 2 /\ s[1] = NL /\ s[2] = NL
    THEN <<cur>> \o SplitFrom(SubSeq(s, 3, Len(s)), <<>>)
    ELSE IF s = <<>>
         THEN <<cur>>
         ELSE SplitFrom(Tail(s), Append(cur, Head(s)))

Split(s) == SplitFrom(s, <<>>)

\* The paragraphs of parse_text (line 102)
Paragraphs(content, title) == Split(Strip(SliceToLast(content, Len(title) + 1)))

\* The elements parse_text appends to the document (lines 104-108)
TextBody(content, title) ==
    LET ps == Paragraphs(content, title)
    IN  (IF title # <<>> THEN << <<"h1", title>> >> ELSE <<>>)
        \o [i \in 1..Len(ps) |-> <<"p", ps[i]>>]

\* parse_markdown: the converter's output for the stripped content, kept opaque
MarkdownBody(content) == << <<"markdown", Strip(content)>> >>

----------------------------------------------------------------------------
(* Paths, extensions, slugs *)

Stems == {"a", "b"}
HiddenStems == {".h"}
Extensions == {".txt", ".md", ".png"}

\* A path is a stem and a suffix; Path(p).suffix (line 124) is the ext field.
\* The input files are a.txt ... b.png and the hidden file .h.txt
AllFiles == [stem : Stems, ext : Extensions] \cup [stem : HiddenStems, ext : {".txt"}]
DirPath == [stem |-> "site", ext |-> ""]

\* definitions.SUPORTED_FILE_EXTENSIONS: the fixed extension-preference order
SUPORTED_FILE_EXTENSIONS == <<".txt", ".md">>

\* utils.is_filetype_supported
is_filetype_supported(p) ==
    \E i \in 1..Len(SUPORTED_FILE_EXTENSIONS) : SUPORTED_FILE_EXTENSIONS[i] = p.ext

\* The slug GeneratorOptions.load_metadata derives from the file name: its stem
Slug(p) == p.stem
Slugs == Stems \cup HiddenStems

\* A name that begins with a dot
IsHidden(p) == p.stem \in HiddenStems

Range(s) == {s[i] : i \in 1..Len(s)}

\* fnmatch of a name against "*" + e: the name ends with e, and "*" matches no
\* leading dot, so a hidden file never matches
MatchesPattern(p, e) == p.ext = e /\ ~IsHidden(p)

\* The files of sequence s that match "*" + e, in the order of s
RECURSIVE SelectExt(_, _)
SelectExt(s, e) ==
    IF s = <<>> THEN <<>>
    ELSE IF MatchesPattern(Head(s), e) THEN <<Head(s)>> \o SelectExt(Tail(s), e)
         ELSE SelectExt(Tail(s), e)

RECURSIVE Reverse(_)
Reverse(s) == IF s = <<>> THEN <<>> ELSE Append(Reverse(Tail(s)), Head(s))

\* A mutant of Glob: the pattern "*" without the extension
GlobAll(dir, extension) == dir

\* A mutant of Glob: an enumeration order that differs from one invocation to
\* the next
GlobUnstable(dir, extension) ==
    IF run % 2 = 0 THEN Reverse(SelectExt(dir, extension)) ELSE SelectExt(dir, extension)

\* glob.glob(path.join(dir_path, "*" + extension)) (line 56): the files of the
\* directory whose name matches the pattern, in enumeration order
Glob(dir, extension) == SelectExt(dir, extension)

\* The directories of at most n files, each with an enumeration order
Listings(n) ==
    {s \in UNION {[1..k -> AllFiles] : k \in 0..n} :
        \A i, j \in 1..Len(s) : i # j => s[i] # s[j]}

\* The texts of the input files of Spec
SampleText(p) ==
    IF p.ext = ".txt"
    THEN IF p.stem = "a"
         THEN <<"a", NL, NL, NL, "a", " ", "a", NL, NL, "a", NL>>
         ELSE <<"a", "a", NL, NL, "a", NL>>
    ELSE IF p.stem = "a" THEN <<"a", NL>> ELSE <<" ", "a", "a", NL>>

----------------------------------------------------------------------------
(* dist/ *)

NoBody == <<>>
Absent == [state |-> "absent", body |-> NoBody]
\* A file left in dist/ by something earlier; Locked: one that cannot be removed
Stale == [state |-> "stale", body |-> NoBody]
Locked == [state |-> "locked", body |-> NoBody]
Html(d) == [state |-> "html", body |-> d]

EmptyDist == [s \in Slugs |-> Absent]

\* A mutant of RmTree: the output directory is not removed
RmTreeKeep(d) == d

\* shutil.rmtree(DIST_DIRECTORY_PATH, ignore_errors=True) followed by
\* makedirs(DIST_DIRECTORY_PATH, exist_ok=True) (lines 45-46): every file is
\* removed, except that a file that cannot be removed stays, the error ignored
RmTree(d) == [s \in Slugs |-> IF d[s].state = "locked" THEN d[s] ELSE Absent]

\* A mutant of RouteExists: the duplicate check never fires
RouteNeverExists(d, slug) == FALSE

\* route.exists() (line 154) for route = dist/<slug>.html
RouteExists(d, slug) == d[slug].state # "absent"

----------------------------------------------------------------------------
(* Exceptions and the handlers of the command *)

\* The base class of each exception class (Python's built-in hierarchy;
\* json.JSONDecodeError derives from ValueError)
Base(cls) ==
    CASE cls = "FileNotFoundError" -> "OSError"
      [] cls = "FileExistsError" -> "OSError"
      [] cls = "PermissionError" -> "OSError"
      [] cls = "OSError" -> "Exception"
      [] cls = "JSONDecodeError" -> "ValueError"
      [] cls = "ValueError" -> "Exception"
      [] OTHER -> "BaseException"

RECURSIVE IsInstance(_, _)
IsInstance(cls, of) ==
    \/ cls = of
    \/ cls \notin {"BaseException"} /\ IsInstance(Base(cls), of)

\* A mutant of Handlers: the clause for OSError is missing
HandlersNoOSError == <<"FileNotFoundError", "JSONDecodeError">>

\* The except clauses of the command (lines 60-65)
Handlers == <<"FileNotFoundError", "JSONDecodeError", "OSError">>

Caught(cls) == \E i \in 1..Len(Handlers) : IsInstance(cls, Handlers[i])

\* Number of lines of str(error): the message of the duplicate-route error
\* (lines 155-158) holds a line feed, the other messages are one line
MessageLines(cls) == IF cls = "FileExistsError" THEN 2 ELSE 1

\* An exception raised inside the try block: a matching handler echoes one
\* message and the command returns; otherwise the exception leaves the command
Raise(cls) ==
    /\ pc' = "done"
    /\ IF Caught(cls)
       THEN /\ reported' = Append(reported, [class |-> cls, lines |-> MessageLines(cls)])
            /\ escaped' = escaped
       ELSE /\ escaped' = cls
            /\ reported' = reported

----------------------------------------------------------------------------
(* The silkie command *)

NoOptions ==
    [loaded |-> FALSE, input_path |-> DirPath, title |-> <<>>, content |-> <<>>,
     slug |-> ""]

InputPath == IF input_kind = "dir" THEN DirPath ELSE listing[1]

\* The exception GeneratorOptions(...) raises for a config file that is missing
\* or cannot be parsed
OptionsFailure(c) == IF c = "missing" THEN "FileNotFoundError" ELSE "JSONDecodeError"

\* options = GeneratorOptions(...) (lines 38-43), the first statement of the try
\* block
LoadOptions ==
    /\ pc = "options"
    /\ IF config = "ok"
       THEN /\ options' = [NoOptions EXCEPT !.loaded = TRUE, !.input_path = InputPath]
            /\ pc' = "clean"
            /\ UNCHANGED <<reported, escaped>>
       ELSE /\ Raise(OptionsFailure(config))
            /\ UNCHANGED options
    /\ UNCHANGED <<files, input_kind, listing, unreadable, config, dist, ext_index,
                   pending, doc, rendered, written, survivors, pre_dist, run, prev_dist>>

\* Clean build (lines 45-46)
CleanBuild ==
    /\ pc = "clean"
    /\ dist' = RmTree(dist)
    /\ survivors' = {s \in survivors : RmTree(dist)[s] = dist[s] /\ dist[s] # Absent}
    /\ pc' = "dispatch"
    /\ UNCHANGED <<files, input_kind, listing, unreadable, config, options, ext_index,
                   pending, doc, reported, escaped, rendered, written, pre_dist, run,
                   prev_dist>>

\* The two if statements of lines 48 and 53
Dispatch ==
    /\ pc = "dispatch"
    /\ pc' = IF input_kind = "file" /\ is_filetype_supported(options.input_path)
             THEN "load_metadata"
             ELSE IF input_kind = "dir" THEN "glob" ELSE "done"
    /\ ext_index' = 1
    /\ UNCHANGED <<files, input_kind, listing, unreadable, config, dist, options,
                   pending, doc, reported, escaped, rendered, written, survivors,
                   pre_dist, run, prev_dist>>

\* for extension in SUPORTED_FILE_EXTENSIONS (line 55) and the glob of line 56
NextExtension ==
    /\ pc = "glob"
    /\ IF ext_index <= Len(SUPORTED_FILE_EXTENSIONS)
       THEN /\ pending' = Glob(listing, SUPORTED_FILE_EXTENSIONS[ext_index])
            /\ pc' = "iterate"
       ELSE /\ pending' = <<>>
            /\ pc' = "done"
    /\ UNCHANGED <<files, input_kind, listing, unreadable, config, dist, options,
                   ext_index, doc, reported, escaped, rendered, written, survivors,
                   pre_dist, run, prev_dist>>

\* for filepath in glob.glob(...): options.input_path = filepath (lines 56-57)
NextFile ==
    /\ pc = "iterate"
    /\ IF pending # <<>>
       THEN /\ options' = [options EXCEPT !.input_path = Head(pending)]
            /\ pending' = Tail(pending)
            /\ ext_index' = ext_index
            /\ pc' = "load_metadata"
       ELSE /\ ext_index' = ext_index + 1
            /\ pc' = "glob"
            /\ UNCHANGED <<options, pending>>
    /\ UNCHANGED <<files, input_kind, listing, unreadable, config, dist, doc, reported,
                   escaped, rendered, written, survivors, pre_dist, run, prev_dist>>

\* options.load_metadata() (lines 51, 58): reads the file into options.content
\* and derives options.slug from its name
LoadMetadata ==
    /\ pc = "load_metadata"
    /\ IF options.input_path \in unreadable
       THEN /\ Raise("PermissionError")
            /\ UNCHANGED options
       ELSE /\ options' = [options EXCEPT !.content = files[options.input_path],
                                          !.slug = Slug(options.input_path)]
            /\ pc' = "get_html"
            /\ UNCHANGED <<reported, escaped>>
    /\ UNCHANGED <<files, input_kind, listing, unreadable, config, dist, ext_index,
                   pending, doc, rendered, written, survivors, pre_dist, run, prev_dist>>

\* parse_text (lines 99-108): sets options.title and appends the elements
ParseTextTitle(o) == GetTitle(files[o.input_path])
ParseTextBody(o) == TextBody(o.content, ParseTextTitle(o))

\* html = get_html(options) (lines 116-130, called at line 170)
GetHtml ==
    /\ pc = "get_html"
    /\ rendered' = Append(rendered, options.input_path)
    /\ IF options.input_path.ext = ".txt"
       THEN /\ options' = [options EXCEPT !.title = ParseTextTitle(options)]
            /\ doc' = ParseTextBody(options)
       ELSE /\ options' = options
            /\ doc' = IF options.input_path.ext = ".md"
                      THEN MarkdownBody(options.content)
                      ELSE NoBody
    /\ pc' = "build_folder_structure"
    /\ UNCHANGED <<files, input_kind, listing, unreadable, config, dist, ext_index,
                   pending, reported, escaped, written, survivors, pre_dist, run,
                   prev_dist>>

\* file_path = build_folder_structure(options) (lines 145-162, called at line 171)
BuildFolderStructure ==
    /\ pc = "build_folder_structure"
    /\ IF RouteExists(dist, options.slug)
       THEN Raise("FileExistsError")
       ELSE /\ pc' = "write_static_file"
            /\ UNCHANGED <<reported, escaped>>
    /\ UNCHANGED <<files, input_kind, listing, unreadable, config, dist, options,
                   ext_index, pending, doc, rendered, written, survivors, pre_dist, run,
                   prev_dist>>

\* write_static_file(...) (lines 133-142, called at line 172); control then
\* returns to the loop, or to the end of the try block for a single file
WriteStaticFile ==
    /\ pc = "write_static_file"
    /\ dist' = [dist EXCEPT ![options.slug] = Html(doc)]
    /\ written' = Append(written, [file |-> options.input_path, body |-> doc])
    /\ survivors' = survivors \ {options.slug}
    /\ pc' = IF input_kind = "dir" THEN "iterate" ELSE "done"
    /\ UNCHANGED <<files, input_kind, listing, unreadable, config, options, ext_index,
                   pending, doc, reported, escaped, rendered, pre_dist, run, prev_dist>>

\* The command is run again on the same inputs and configuration
Invoke ==
    /\ pc = "done"
    /\ run < MaxRuns
    /\ run' = run + 1
    /\ prev_dist' = dist
    /\ pre_dist' = dist
    /\ survivors' = {s \in Slugs : dist[s] # Absent}
    /\ options' = NoOptions
    /\ ext_index' = 1
    /\ pending' = <<>>
    /\ doc' = NoBody
    /\ reported' = <<>>
    /\ escaped' = "none"
    /\ rendered' = <<>>
    /\ written' = <<>>
    /\ pc' = "options"
    /\ UNCHANGED <<files, input_kind, listing, unreadable, config, dist>>

Fresh ==
    /\ pc = "options"
    /\ options = NoOptions
    /\ ext_index = 1
    /\ pending = <<>>
    /\ doc = NoBody
    /\ reported = <<>>
    /\ escaped = "none"
    /\ rendered = <<>>
    /\ written = <<>>
    /\ run = 1

Init ==
    /\ input_kind \in {"file", "dir"}
    /\ listing \in IF input_kind = "file"
                   THEN {<<f>> : f \in AllFiles}
                   ELSE Listings(MaxFiles)
    /\ files = [f \in AllFiles |-> SampleText(f)]
    /\ unreadable \in {u \in SUBSET Range(listing) : Cardinality(u) <= 1}
    /\ config \in {"ok", "missing", "malformed"}
    /\ dist \in {d \in [Slugs -> {Absent, Stale, Locked}] :
                    \A s \in HiddenStems : d[s] = Absent}
    /\ survivors = {s \in Slugs : dist[s] # Absent}
    /\ pre_dist = dist
    /\ prev_dist = dist
    /\ Fresh

Next ==
    \/ LoadOptions
    \/ CleanBuild
    \/ Dispatch
    \/ NextExtension
    \/ NextFile
    \/ LoadMetadata
    \/ GetHtml
    \/ BuildFolderStructure
    \/ WriteStaticFile
    \/ Invoke

Spec == Init /\ [][Next]_vars

----------------------------------------------------------------------------
(* parse_text on its own *)

TextFile == [stem |-> "a", ext |-> ".txt"]

\* The state in which get_html calls parse_text (line 126) for a text file whose
\* content load_metadata has just read
InitText ==
    /\ input_kind = "file"
    /\ listing = <<TextFile>>
    /\ files \in {[f \in {TextFile} |-> t] : t \in Texts(MaxLen) \cup {HelloText}}
    /\ unreadable = {}
    /\ config = "ok"
    /\ dist = EmptyDist
    /\ survivors = {}
    /\ pre_dist = dist
    /\ prev_dist = dist
    /\ pc = "parse_text"
    /\ options = [loaded |-> TRUE, input_path |-> TextFile, title |-> <<>>,
                  content |-> files[TextFile], slug |-> Slug(TextFile)]
    /\ ext_index = 1
    /\ pending = <<>>
    /\ doc = NoBody
    /\ reported = <<>>
    /\ escaped = "none"
    /\ rendered = <<>>
    /\ written = <<>>
    /\ run = 1

\* parse_text(line, options) (lines 99-108)
ParseText ==
    /\ pc = "parse_text"
    /\ options' = [options EXCEPT !.title = ParseTextTitle(options)]
    /\ doc' = ParseTextBody(options)
    /\ pc' = "parsed"
    /\ UNCHANGED <<files, input_kind, listing, unreadable, config, dist, ext_index,
                   pending, reported, escaped, rendered, written, survivors, pre_dist,
                   run, prev_dist>>

NextText == ParseText

SpecText == InitText /\ [][NextText]_vars

----------------------------------------------------------------------------
(* Vocabulary of the properties *)

\* The first line of a text, without its line feed
FirstLine(s) == SubSeq(s, 1, LineLen(s))

RECURSIVE LeadingFeeds(_)
LeadingFeeds(s) == IF s # <<>> /\ Head(s) = NL THEN 1 + LeadingFeeds(Tail(s)) ELSE 0

\* Number of blank (empty) lines that directly follow the first line: the line
\* feeds after the one that ends the first line
BlankLinesAfterFirstLine(s) ==
    IF LineLen(s) >= Len(s) THEN 0 ELSE LeadingFeeds(SubSeq(s, LineLen(s) + 2, Len(s)))

\* What remains of a text after its first line and the three line feeds of the
\* title separator
AfterTitle(s) == SubSeq(s, LineLen(s) + 4, Len(s))

RECURSIVE Join(_)
Join(ps) ==
    IF ps = <<>> THEN <<>>
    ELSE IF Len(ps) = 1 THEN ps[1]
         ELSE ps[1] \o <<NL, NL>> \o Join(Tail(ps))

NoH1(d) == \A i \in 1..Len(d) : d[i][1] # "h1"
AllP(d) == \A i \in 1..Len(d) : d[i][1] = "p"
ElementTexts(d) == [i \in 1..Len(d) |-> d[i][2]]

HasBlankLine(s) == \E i \in 1..(Len(s) - 1) : s[i] = NL /\ s[i + 1] = NL

TheText == files[TextFile]

ExtensionRank(e) ==
    CHOOSE i \in 1..Len(SUPORTED_FILE_EXTENSIONS) : SUPORTED_FILE_EXTENSIONS[i] = e

SupportedOf(dir) == {f \in Range(dir) : is_filetype_supported(f)}
WrittenFiles == {written[i].file : i \in 1..Len(written)}

\* The run has rendered two distinct files with one slug, i before j
SameSlugPair(i, j) ==
    /\ i < j
    /\ rendered[i] # rendered[j]
    /\ Slug(rendered[i]) = Slug(rendered[j])

----------------------------------------------------------------------------
(* Properties of the silkie command (Spec) *)

\* C1: when a run renders a second file whose slug was produced by an earlier,
\* distinct file of the same run, that file is the last one the run handles:
\* build_folder_structure raises the duplicate-route error (FileExistsError) for
\* it and write_static_file is never called for it.
C1_DuplicateRouteFails ==
    \A i, j \in 1..Len(rendered) :
        SameSlugPair(i, j) =>
            /\ j = Len(rendered)
            /\ rendered[j] \notin WrittenFiles
            /\ \/ pc = "build_folder_structure"
               \/ /\ pc = "done"
                  /\ Len(reported) = 1
                  /\ reported[1].class = "FileExistsError"

C1_Witness ==
    /\ pc = "done"
    /\ \E i, j \in 1..Len(rendered) : SameSlugPair(i, j)
    /\ reported # <<>>
    /\ reported[1].class = "FileExistsError"

\* C2: within a run every slug is written at most once, and what was written
\* under a slug is still the content of dist/<slug>.html in every later state of
\* the run, a run that ends in the duplicate-route error included.
C2_AppendOnly ==
    /\ \A i, j \in 1..Len(written) :
           i # j => Slug(written[i].file) # Slug(written[j].file)
    /\ \A i \in 1..Len(written) :
           dist[Slug(written[i].file)] = Html(written[i].body)

C2_Witness ==
    /\ pc = "done"
    /\ Len(written) >= 2
    /\ reported # <<>>
    /\ reported[1].class = "FileExistsError"

Removable(d) == \A s \in Slugs : d[s].state # "locked"

\* C3 as stated (here: for a dist/ whose files can all be removed): at the end of
\* every invocation, one that ends with a reported error included, no file that
\* was in dist/ before the invocation is still there.
C3_Original_ClearedOnEveryInvocation ==
    (pc = "done" /\ Removable(pre_dist)) => survivors = {}

\* C3 amended: once the options are loaded, dist/ is deleted and recreated
\* before any file is rendered or written, so from then on no file from before
\* the invocation is still there, except a file rmtree could not remove; an
\* invocation whose option loading fails leaves dist/ as it was.
C3_ClearedOnceOptionsLoaded ==
    /\ (options.loaded /\ pc # "clean") =>
           \A s \in survivors : pre_dist[s].state = "locked"
    /\ (pc = "done" /\ ~options.loaded) => dist = pre_dist

C3_Witness ==
    /\ pc = "done"
    /\ options.loaded
    /\ \E s \in Slugs : pre_dist[s].state = "stale"
    /\ written # <<>>
    /\ survivors = {}

\* C4: when the command is run again on the same inputs and configuration, it
\* leaves dist/ exactly as the previous run left it: the same files with the same
\* contents.
C4_Idempotent ==
    (pc = "done" /\ run >= 2) => dist = prev_dist

C4_Witness ==
    /\ pc = "done"
    /\ run = 2
    /\ written # <<>>
    /\ dist = prev_dist
    /\ dist # EmptyDist

\* C8 as stated: a run over a directory (here: one without hidden files, whose
\* files can all be read, with a dist/ that can be emptied) has, when it ends, rendered every file of a supported extension exactly once,
\* in extension order, and no other file; a single file of an unsupported
\* extension generates nothing.
C8_Original_EachFileExactlyOnce ==
    /\ (pc = "done" /\ options.loaded /\ input_kind = "dir" /\ unreadable = {}
            /\ Removable(pre_dist)
            /\ \A f \in Range(listing) : ~IsHidden(f)) =>
           /\ \A f \in SupportedOf(listing) :
                  Cardinality({i \in 1..Len(rendered) : rendered[i] = f}) = 1
           /\ \A i, j \in 1..Len(rendered) :
                  i < j => ExtensionRank(rendered[i].ext) <= ExtensionRank(rendered[j].ext)
           /\ Range(rendered) \subseteq SupportedOf(listing)
    /\ (input_kind = "file" /\ ~is_filetype_supported(listing[1])) =>
           rendered = <<>> /\ written = <<>>

\* C8 amended: a run over a directory renders each file of a supported extension
\* at most once, and each one that is not hidden exactly once (and writes it)
\* when the run ends without a reported error; a hidden file is never rendered;
\* files are rendered in extension order; a file of an unsupported extension is
\* never rendered or written; a single file of an unsupported extension
\* generates nothing.
C8_EachFileOnceUnlessAborted ==
    /\ \A i, j \in 1..Len(rendered) : i < j => rendered[i] # rendered[j]
    /\ \A i, j \in 1..Len(rendered) :
           i < j => ExtensionRank(rendered[i].ext) <= ExtensionRank(rendered[j].ext)
    /\ Range(rendered) \subseteq SupportedOf(listing)
    /\ WrittenFiles \subseteq Range(rendered)
    /\ (pc = "done" /\ options.loaded /\ input_kind = "dir" /\ reported = <<>>) =>
           /\ Range(rendered) = {f \in SupportedOf(listing) : ~IsHidden(f)}
           /\ WrittenFiles = {f \in SupportedOf(listing) : ~IsHidden(f)}
    /\ input_kind = "dir" => \A i \in 1..Len(rendered) : ~IsHidden(rendered[i])
    /\ (input_kind = "file" /\ ~is_filetype_supported(listing[1])) =>
           /\ rendered = <<>>
           /\ written = <<>>
           /\ \A s \in Slugs : dist[s].state # "html"

C8_Witness ==
    /\ pc = "done"
    /\ input_kind = "dir"
    /\ reported = <<>>
    /\ Len(rendered) = 2
    /\ rendered[1].ext = ".txt"
    /\ rendered[2].ext = ".md"
    /\ \E f \in Range(listing) : ~is_filetype_supported(f)
    /\ listing[1].ext # ".txt"

\* C9 as stated (here: for a dist/ that can be emptied): no error leaves the
\* command, every error is reported as a single line, and the command handles no
\* further file after it.
C9_Original_SingleFailureLine ==
    Removable(pre_dist) =>
        /\ escaped = "none"
        /\ Len(reported) <= 1
        /\ \A i \in 1..Len(reported) : reported[i].lines = 1
        /\ reported # <<>> => pc = "done"

\* C9 amended: no error leaves the command; an error is reported by exactly one
\* failure message, which is one line except for the duplicate-route error, whose
\* message is two lines; after it the command renders and writes no further file.
C9_CaughtAndReportedOnce ==
    /\ escaped = "none"
    /\ Len(reported) <= 1
    /\ \A i \in 1..Len(reported) :
           reported[i].lines = (IF reported[i].class = "FileExistsError" THEN 2 ELSE 1)
    /\ reported # <<>> => pc = "done"

C9_Witness ==
    /\ reported # <<>>
    /\ reported[1].class = "FileExistsError"
    /\ input_kind = "dir"
    /\ \E i, j \in 1..Len(rendered) : SameSlugPair(i, j)
    /\ pending # <<>>
    /\ escaped = "none"

----------------------------------------------------------------------------
(* Properties of parse_text and get_title (SpecText) *)

\* C5: for a text whose first line is followed by exactly two blank lines,
\* get_title returns the first line with surrounding whitespace removed.
C5_TitleIsFirstLine ==
    (pc = "parsed" /\ BlankLinesAfterFirstLine(TheText) = 2) =>
        options.title = Strip(FirstLine(TheText))

C5_Witness ==
    /\ pc = "parsed"
    /\ BlankLinesAfterFirstLine(TheText) = 2
    /\ options.title # <<>>
    /\ FirstLine(TheText) # options.title

\* C6 as stated: for a text whose first line is empty or is not followed by
\* exactly two blank lines, get_title returns the empty string and no h1 is
\* emitted.
C6_Original_NoTitleWithoutExactGap ==
    (pc = "parsed"
        /\ (BlankLinesAfterFirstLine(TheText) # 2 \/ FirstLine(TheText) = <<>>)) =>
        options.title = <<>> /\ NoH1(doc)

\* C6 amended: for a text whose first line is empty or is followed by fewer than
\* two blank lines, get_title returns the empty string and no h1 is emitted.
C6_NoTitleWithoutGap ==
    (pc = "parsed"
        /\ (BlankLinesAfterFirstLine(TheText) < 2 \/ FirstLine(TheText) = <<>>)) =>
        options.title = <<>> /\ NoH1(doc)

C6_Witness ==
    /\ pc = "parsed"
    /\ BlankLinesAfterFirstLine(TheText) = 1
    /\ FirstLine(TheText) # <<>>
    /\ Len(doc) >= 2
    /\ options.title = <<>>

\* C7: for a text with a detected title, the document is the title as h1
\* followed by one p per blank-line-separated paragraph of what remains after the
\* title and its separator, in order and with every character kept: the
\* paragraphs hold no blank line and, joined by blank lines, are what remains
\* with surrounding whitespace removed; the sample text gives h1 Hello, p World,
\* p Foo bar.
C7_TitleThenParagraphs ==
    (pc = "parsed" /\ options.title # <<>>) =>
        /\ doc # <<>>
        /\ doc[1] = <<"h1", options.title>>
        /\ AllP(Tail(doc))
        /\ Join(ElementTexts(Tail(doc))) = Strip(AfterTitle(TheText))
        /\ TheText = HelloText =>
               doc = << <<"h1", <<"H", "e", "l", "l", "o">> >>,
                        <<"p", <<"W", "o", "r", "l", "d">> >>,
                        <<"p", <<"F", "o", "o", " ", "b", "a", "r">> >> >>

\* C10: for a text with no detected title, the document has no h1 and is one p
\* per paragraph of the whole content; the paragraphs, joined by blank lines, are
\* the content with surrounding whitespace removed.
C10_ParagraphsKeepContent ==
    (pc = "parsed" /\ options.title = <<>>) =>
        /\ NoH1(doc)
        /\ AllP(doc)
        /\ Join(ElementTexts(doc)) = Strip(TheText)

====
